---- MODULE Spec2Model ----
(***************************************************************************)
(* dimandocs: the vector store (vector/storage.go), the indexing           *)
(* orchestrator (EmbeddingManager) and the embedding providers             *)
(* (embedding/openai.go, embedding/voyage.go, the Ollama service).         *)
(*                                                                         *)
(* The specifications of the module:                                       *)
(*   Spec       the SQLite store behind its RWMutex, one indexer running   *)
(*              IndexDocument calls one after the other (the loops of main *)
(*              and runIndexCommand), concurrent readers (Search,          *)
(*              GetChunksByDocument), DeleteDocument, and process restarts *)
(*              (Initialize + SetDimension in NewEmbeddingManager);        *)
(*   IndexSpec  the `dimandocs index` command: the same store and indexer  *)
(*              with no reader and no DeleteDocument beside them;          *)
(*   ProvSpec   one provider service answering Embed / EmbedBatch calls    *)
(*              against a remote server, with the caller's context;        *)
(*   ConfSpec   LoadConfig and NewEmbeddingManager on a configuration;     *)
(*   SearchSpec the search entry points: HTTP handleSearch and the MCP     *)
(*              tool search_docs;                                          *)
(*   ChunkSpec  calls of chunking.ChunkMarkdown.                           *)
(***************************************************************************)
EXTENDS Integers, Sequences, FiniteSets, TLC

VARIABLES
    \* ---- the SQLite database file (persists over restarts)
    documents,    \* rows of table documents: [id, path, title, content_hash]
    docSeq,       \* sqlite_sequence of documents (id INTEGER PRIMARY KEY AUTOINCREMENT)
    chunks,       \* rows of the vec0 table chunks: [rowid, doc_id, chunk_index, src, dim]
                  \* and, for the claims, the path of the document a row was cut from
    chunkSeq,     \* last rowid the chunks table handed out
    markerDim,    \* metadata row 'dimension' (0: no such row)
    tableDim,     \* float[N] of the chunks table (0: the table does not exist)
    \* ---- the SQLiteStore object of the running process
    dimension,    \* SQLiteStore.dimension
    lastRowid,    \* sqlite3_last_insert_rowid of the store's connection
    mu,           \* SQLiteStore.mu: [writer |-> BOOLEAN, readers |-> Nat]
    phase,        \* "initialized" (Initialize done) | "running" (manager built)
    \* ---- the callers
    ix,           \* the indexer: one IndexDocument call and its position
    rd,           \* the reader: one Search / GetChunksByDocument call
    \* ---- history (what the claims speak about)
    lastOp,       \* the last completed store-level operation
    prevCall,     \* the IndexDocument call before the last one
    lastCall,     \* the last returned IndexDocument call
    lastIns,      \* the last InsertChunks call: its doc id, old and new chunk sets
    budget,       \* what is left of the bounds: [calls, faults]
    \* ---- the embedding provider (ProvSpec)
    pv,           \* the provider service, its current call and the server's answers
    \* ---- the search entry points (SearchSpec) and the chunker (ChunkSpec)
    sq,           \* one search request: HTTP handleSearch or MCP search_docs
    ck            \* one ChunkMarkdown call: its input and what it returned

storeVars == <<documents, docSeq, chunks, chunkSeq, markerDim, tableDim,
               dimension, lastRowid, mu, phase, ix, rd, lastOp, prevCall,
               lastCall, lastIns, budget>>
vars == <<documents, docSeq, chunks, chunkSeq, markerDim, tableDim,
          dimension, lastRowid, mu, phase, ix, rd, lastOp, prevCall,
          lastCall, lastIns, budget, pv, sq, ck>>

---------------------------------------------------------------------------
(* Bounds of the model *)

MaxIndexCalls == 2
MaxFaults == 1

---------------------------------------------------------------------------
(* Program constants *)

DefaultEmbeddingDimension == 3072
VoyageDimension == 1024
OllamaDimension == 768

\* Dimension() of the three services under their default models.
Dims == {DefaultEmbeddingDimension, VoyageDimension}

---------------------------------------------------------------------------
(* Documents handed to the orchestrator: {RelPath, Title, Content} *)

Paths == {"a.md", "b.md"}

\* Three contents: one below MinChunkSize (no chunk), one section that fits
\* MaxChunkSize (one chunk), one that is split in two.
Contents == {"short", "one", "two"}

\* len(chunking.ChunkMarkdown(doc.Content, DefaultOptions())).
ChunkCount(content) ==
    CASE content = "short" -> 0
      [] content = "one" -> 1
      [] content = "two" -> 2

\* hex(sha256(doc.Content)): equal contents have equal hashes, and the model
\* takes the hash to be collision free.
ContentHash(content) == <<"sha256", content>>

\* doc.Title, which the scanner takes from the content.
DocTitle(content) == <<"title", content>>

None == "none"
NoCall == [path |-> None, content |-> None, force |-> FALSE, err |-> None,
           embeds |-> 0, writes |-> 0, needed |-> FALSE, existed |-> FALSE,
           hadChunks |-> FALSE]
NoIns == [docID |-> -1, old |-> {}, new |-> {}]
NoOp == [op |-> None, dim |-> 0, changed |-> FALSE, err |-> None, before |-> {},
         rowsBefore |-> 0]
IdleIx == [pc |-> "idle", path |-> None, content |-> None, force |-> FALSE,
           docID |-> 0, k |-> 0, embeds |-> 0, writes |-> 0, needed |-> FALSE,
           existed |-> FALSE, hadChunks |-> FALSE]
IdleRd == [pc |-> "idle", kind |-> None, docID |-> 0, err |-> None, rows |-> {},
           hits |-> {}, ins |-> NoIns]

---------------------------------------------------------------------------
(* SQLiteStore.mu *)

CanLock == ~mu.writer /\ mu.readers = 0
CanRLock == ~mu.writer

\* An I/O failure of one SQL statement, while the bound allows one more.
FaultChoices == IF budget.faults > 0 THEN {FALSE, TRUE} ELSE {FALSE}
Spend(field) == [budget EXCEPT ![field] = @ - 1]
SpendIf(fault) == IF fault THEN Spend("faults") ELSE budget

---------------------------------------------------------------------------
(* The store's statements *)

HasDoc(docs, path) == \E d \in docs : d.path = path
DocOf(docs, path) == CHOOSE d \in docs : d.path = path

NeedsUpdate_Always(docs, path, contentHash) == TRUE

\* SELECT content_hash FROM documents WHERE path = ?: true when there is no
\* row, else whether the stored hash differs.
NeedsUpdate(docs, path, contentHash) ==
    IF ~HasDoc(docs, path) THEN TRUE
    ELSE DocOf(docs, path).content_hash # contentHash

\* INSERT INTO documents ... ON CONFLICT(path) DO UPDATE SET title, content_hash.
UpsertRows(docs, seq, path, title, contentHash) ==
    IF HasDoc(docs, path)
    THEN {IF d.path = path
          THEN [d EXCEPT !.title = title, !.content_hash = contentHash]
          ELSE d : d \in docs}
    ELSE docs \cup {[id |-> seq + 1, path |-> path, title |-> title,
                     content_hash |-> contentHash]}

\* result.LastInsertId(): sqlite3_last_insert_rowid of the connection. The
\* insert path sets it to the new row's id; the DO UPDATE path inserts no row
\* and leaves it at the rowid of the connection's last insert, into whatever
\* table. go-sqlite3 never fails the call, so the SELECT id fallback is dead.
LastInsertId(docs, seq, last, path) ==
    IF HasDoc(docs, path) THEN last ELSE seq + 1

\* What a reader sees of a chunk row: its index and the content it was cut from.
View(rows) == {<<r.chunk_index, r.src>> : r \in rows}
ChunksOfDoc(docID) == {r \in chunks : r.doc_id = docID}

\* Search: SELECT ... FROM chunks c JOIN documents d ON c.doc_id = d.id.
SearchRows ==
    {[path |-> d.path, content_hash |-> d.content_hash, chunk_index |-> r.chunk_index,
      src |-> r.src, dim |-> r.dim] : <<r, d>> \in
        {x \in chunks \X documents : x[1].doc_id = x[2].id}}

---------------------------------------------------------------------------
(* SetDimension: the dimension migration *)

\* DROP TABLE IF EXISTS chunks.
DropChunks(rows) == {}

KeepDocuments(docs) == docs

\* DELETE FROM documents.
ClearDocuments(docs) == {}

\* The statements of SetDimension(dim) in order; failAt names the statement
\* whose error makes it return ("none": all succeed). "select" is a failure
\* of the marker query other than sql.ErrNoRows: err # nil, so the migration
\* runs whatever the marker holds.
StepNo(failAt) ==
    CASE failAt = "drop" -> 1
      [] failAt = "clear" -> 2
      [] failAt = "create" -> 3
      [] failAt = "marker" -> 4
      [] OTHER -> 5
SetDimensionResult(dim, failAt) ==
    IF markerDim = dim /\ failAt # "select"
    THEN [documents |-> documents, chunks |-> chunks, chunkSeq |-> chunkSeq,
          tableDim |-> tableDim, markerDim |-> markerDim, err |-> None,
          migrated |-> FALSE]
    ELSE LET n == StepNo(failAt) IN
         [documents |-> IF n > 2 THEN ClearDocuments(documents) ELSE documents,
          chunks |-> IF n > 1 THEN DropChunks(chunks) ELSE chunks,
          chunkSeq |-> IF n > 1 THEN 0 ELSE chunkSeq,
          tableDim |-> IF n > 3 THEN dim ELSE IF n > 1 THEN 0 ELSE tableDim,
          markerDim |-> IF n > 4 THEN dim ELSE markerDim,
          err |-> IF n > 4 THEN None ELSE failAt,
          migrated |-> TRUE]

\* NewEmbeddingManager, after Initialize: store.SetDimension(embedService
\* .Dimension()); the error it returns is dropped and the manager is built.
SetDimensionCall(dim, failAt) ==
    /\ phase = "initialized"
    /\ failAt = "none" \/ budget.faults > 0
    /\ failAt \in {"none", "select"} \/ markerDim # dim
    /\ LET r == SetDimensionResult(dim, failAt) IN
         /\ documents' = r.documents
         /\ chunks' = r.chunks
         /\ chunkSeq' = r.chunkSeq
         /\ tableDim' = r.tableDim
         /\ markerDim' = r.markerDim
         /\ lastOp' = [op |-> "SetDimension", dim |-> dim,
                       changed |-> markerDim # dim, err |-> r.err,
                       before |-> {<<d.path, d.content_hash>> : d \in documents},
                       rowsBefore |-> Cardinality(chunks)]
    /\ dimension' = dim
    /\ budget' = SpendIf(failAt # "none")
    /\ phase' = "running"
    /\ UNCHANGED <<docSeq, lastRowid, mu, ix, rd, prevCall, lastCall, lastIns>>

SetDimension(dim, failAt) == SetDimensionCall(dim, failAt) /\ UNCHANGED <<pv, sq, ck>>

\* The process ends and a new one starts: NewSQLiteStore + Initialize open
\* the same file on a fresh connection. CREATE ... IF NOT EXISTS leaves the
\* existing tables alone and makes a missing chunks table float[3072].
Restart ==
    /\ phase = "running"
    /\ ix.pc = "idle" /\ rd.pc = "idle"
    /\ phase' = "initialized"
    /\ dimension' = DefaultEmbeddingDimension
    /\ tableDim' = IF tableDim = 0 THEN DefaultEmbeddingDimension ELSE tableDim
    /\ lastRowid' = 0
    /\ lastOp' = NoOp
    /\ prevCall' = NoCall /\ lastCall' = NoCall /\ lastIns' = NoIns
    /\ UNCHANGED <<documents, docSeq, chunks, chunkSeq, markerDim, mu, ix, rd,
                   budget, pv, sq, ck>>

---------------------------------------------------------------------------
(* EmbeddingManager.IndexDocument *)

\* IndexDocument returns err: the call is logged.
Return(err, embeds, writes) ==
    /\ ix' = IdleIx
    /\ prevCall' = lastCall
    /\ lastCall' = [path |-> ix.path, content |-> ix.content, force |-> ix.force,
                    err |-> err, embeds |-> embeds, writes |-> writes,
                    needed |-> ix.needed, existed |-> ix.existed,
                    hadChunks |-> ix.hadChunks]

\* The call starts: m.enabled, the hash is computed.
IndexStart(path, content, force) ==
    /\ phase = "running"
    /\ ix.pc = "idle"
    /\ budget.calls > 0
    /\ budget' = Spend("calls")
    /\ ix' = [IdleIx EXCEPT !.pc = IF force THEN "upsert" ELSE "needsUpdate",
                            !.path = path, !.content = content, !.force = force,
                            !.existed = HasDoc(documents, path),
                            !.hadChunks = /\ HasDoc(documents, path)
                                          /\ ChunksOfDoc(DocOf(documents, path).id) # {}]
    /\ UNCHANGED <<documents, docSeq, chunks, chunkSeq, markerDim, tableDim,
                   dimension, lastRowid, mu, phase, rd, lastOp, prevCall,
                   lastCall, lastIns, pv, sq, ck>>

\* if !force: m.store.NeedsUpdate(doc.RelPath, contentHash), under RLock.
IndexNeedsUpdate(fault) ==
    /\ ix.pc = "needsUpdate"
    /\ CanRLock
    /\ budget' = SpendIf(fault)
    /\ IF fault
       THEN Return("store: needs update", ix.embeds, ix.writes)
       ELSE IF NeedsUpdate(documents, ix.path, ContentHash(ix.content))
            THEN /\ ix' = [ix EXCEPT !.pc = "upsert", !.needed = TRUE]
                 /\ UNCHANGED <<prevCall, lastCall>>
            ELSE Return(None, ix.embeds, ix.writes)
    /\ UNCHANGED <<documents, docSeq, chunks, chunkSeq, markerDim, tableDim,
                   dimension, lastRowid, mu, phase, rd, lastOp, lastIns, pv, sq, ck>>

\* m.store.UpsertDocument under Lock, then ChunkMarkdown; no chunk: return nil.
IndexUpsert(fault) ==
    /\ ix.pc = "upsert"
    /\ CanLock
    /\ budget' = SpendIf(fault)
    /\ IF fault
       THEN /\ Return("store: upsert", ix.embeds, ix.writes + 1)
            /\ UNCHANGED <<documents, docSeq, lastRowid, lastOp>>
       ELSE LET h == ContentHash(ix.content)
                id == LastInsertId(documents, docSeq, lastRowid, ix.path)
            IN  /\ documents' = UpsertRows(documents, docSeq, ix.path,
                                           DocTitle(ix.content), h)
                /\ docSeq' = docSeq + 1
                /\ lastRowid' = id
                /\ lastOp' = NoOp
                /\ IF ChunkCount(ix.content) = 0
                   THEN Return(None, ix.embeds, ix.writes + 1)
                   ELSE /\ ix' = [ix EXCEPT !.pc = "embed", !.docID = id,
                                            !.writes = @ + 1, !.needed = TRUE]
                        /\ UNCHANGED <<prevCall, lastCall>>
    /\ UNCHANGED <<chunks, chunkSeq, markerDim, tableDim, dimension, mu, phase,
                   rd, lastIns, pv, sq, ck>>

\* m.embed.EmbedBatch(ctx, chunkTexts): the provider answers or fails.
IndexEmbed(ok) ==
    /\ ix.pc = "embed"
    /\ IF ok
       THEN /\ ix' = [ix EXCEPT !.pc = "insLock", !.embeds = @ + 1]
            /\ UNCHANGED <<prevCall, lastCall>>
       ELSE Return("provider", ix.embeds + 1, ix.writes)
    /\ UNCHANGED <<documents, docSeq, chunks, chunkSeq, markerDim, tableDim,
                   dimension, lastRowid, mu, phase, rd, lastOp, lastIns, budget, pv, sq, ck>>

\* InsertChunks returns: the deferred Unlock, and IndexDocument returns.
InsertReturn(err) ==
    /\ mu' = [mu EXCEPT !.writer = FALSE]
    /\ lastOp' = NoOp
    /\ Return(IF err = None THEN None ELSE "store: insert chunks",
              ix.embeds, ix.writes)

\* m.store.InsertChunks(docID, vectorChunks): s.mu.Lock().
IndexInsertLock ==
    /\ ix.pc = "insLock"
    /\ CanLock
    /\ mu' = [mu EXCEPT !.writer = TRUE]
    /\ ix' = [ix EXCEPT !.pc = "insDelete", !.writes = @ + 1]
    /\ lastIns' = [docID |-> ix.docID, old |-> View(ChunksOfDoc(ix.docID)),
                   new |-> {<<i, ContentHash(ix.content)>> :
                              i \in 0..(ChunkCount(ix.content) - 1)}]
    /\ UNCHANGED <<documents, docSeq, chunks, chunkSeq, markerDim, tableDim,
                   dimension, lastRowid, phase, rd, lastOp, prevCall, lastCall,
                   budget, pv, sq, ck>>

\* DELETE FROM chunks WHERE doc_id = ?, its own autocommit statement. It
\* fails when the table is missing (a migration that stopped after the drop).
IndexInsertDelete(fault) ==
    /\ ix.pc = "insDelete"
    /\ tableDim = 0 => fault
    /\ tableDim # 0 => fault \in FaultChoices
    /\ budget' = IF tableDim # 0 THEN SpendIf(fault) ELSE budget
    /\ IF fault
       THEN /\ InsertReturn("delete")
            /\ UNCHANGED chunks
       ELSE /\ chunks' = chunks \ ChunksOfDoc(ix.docID)
            /\ ix' = [ix EXCEPT !.pc = "insPrepare"]
            /\ UNCHANGED <<mu, lastOp, prevCall, lastCall>>
    /\ UNCHANGED <<documents, docSeq, chunkSeq, markerDim, tableDim, dimension,
                   lastRowid, phase, rd, lastIns, pv, sq, ck>>

\* s.db.Prepare(INSERT INTO chunks ...).
IndexInsertPrepare(fault) ==
    /\ ix.pc = "insPrepare"
    /\ budget' = SpendIf(fault)
    /\ IF fault
       THEN InsertReturn("prepare")
       ELSE /\ ix' = [ix EXCEPT !.pc = "insExec", !.k = 0]
            /\ UNCHANGED <<mu, lastOp, prevCall, lastCall>>
    /\ UNCHANGED <<documents, docSeq, chunks, chunkSeq, markerDim, tableDim,
                   dimension, lastRowid, phase, rd, lastIns, pv, sq, ck>>

\* One turn of the loop: stmt.Exec for chunk k, its own autocommit statement;
\* after the last chunk the function returns nil.
IndexInsertExec(fault) ==
    /\ ix.pc = "insExec"
    /\ budget' = SpendIf(fault)
    /\ IF fault
       THEN /\ InsertReturn("exec")
            /\ UNCHANGED <<chunks, chunkSeq, lastRowid>>
       ELSE /\ chunks' = chunks \cup
                  {[rowid |-> chunkSeq + 1, doc_id |-> ix.docID,
                    chunk_index |-> ix.k, src |-> ContentHash(ix.content),
                    dim |-> tableDim, path |-> ix.path]}
            /\ chunkSeq' = chunkSeq + 1
            /\ lastRowid' = chunkSeq + 1
            /\ IF ix.k + 1 = ChunkCount(ix.content)
               THEN InsertReturn(None)
               ELSE /\ ix' = [ix EXCEPT !.k = @ + 1]
                    /\ UNCHANGED <<mu, lastOp, prevCall, lastCall>>
    /\ UNCHANGED <<documents, docSeq, markerDim, tableDim, dimension, phase,
                   rd, lastIns, pv, sq, ck>>

---------------------------------------------------------------------------
(* Readers: Search and GetChunksByDocument *)

\* The doc ids a caller may ask for: those of the records and of the rows.
KnownDocIDs == {d.id : d \in documents} \cup {r.doc_id : r \in chunks}
                 \cup {IF lastIns.docID >= 0 THEN lastIns.docID ELSE 0}

\* s.mu.RLock() and the SELECT, one statement, which fails when the table is
\* missing. The reader then holds the shared lock until it returns.
ReadLock(kind, docID) ==
    /\ phase = "running"
    /\ rd.pc = "idle"
    /\ CanRLock
    /\ mu' = [mu EXCEPT !.readers = @ + 1]
    /\ rd' = [pc |-> "read", kind |-> kind, docID |-> docID,
              err |-> IF tableDim = 0 THEN "query" ELSE None,
              rows |-> IF tableDim = 0 \/ kind = "Search" THEN {}
                       ELSE View(ChunksOfDoc(docID)),
              hits |-> IF tableDim = 0 \/ kind # "Search" THEN {}
                       ELSE SearchRows,
              ins |-> IF kind = "GetChunksByDocument" /\ tableDim # 0
                         /\ lastIns.docID = docID
                      THEN lastIns ELSE NoIns]
    /\ UNCHANGED <<documents, docSeq, chunks, chunkSeq, markerDim, tableDim,
                   dimension, lastRowid, phase, ix, lastOp, prevCall, lastCall,
                   lastIns, budget, pv, sq, ck>>

\* The deferred s.mu.RUnlock(); the caller has its result.
ReadUnlock ==
    /\ rd.pc = "read"
    /\ mu' = [mu EXCEPT !.readers = @ - 1]
    /\ rd' = IdleRd
    /\ UNCHANGED <<documents, docSeq, chunks, chunkSeq, markerDim, tableDim,
                   dimension, lastRowid, phase, ix, lastOp, prevCall, lastCall,
                   lastIns, budget, pv, sq, ck>>

---------------------------------------------------------------------------
(* DeleteDocument *)

\* failAt: "none", "chunks" (DELETE FROM chunks fails) or "document".
DeleteDocument(path, failAt) ==
    /\ phase = "running"
    /\ ix.pc = "idle"
    /\ CanLock
    /\ failAt = "none" \/ (budget.faults > 0 /\ HasDoc(documents, path))
    /\ (tableDim = 0 /\ HasDoc(documents, path)) => failAt # "none"
    /\ IF ~HasDoc(documents, path)
       THEN /\ UNCHANGED <<documents, chunks>>
            /\ lastOp' = NoOp
       ELSE LET id == DocOf(documents, path).id IN
            /\ chunks' = IF failAt = "chunks" THEN chunks
                         ELSE chunks \ ChunksOfDoc(id)
            /\ documents' = IF failAt = "none"
                            THEN {d \in documents : d.id # id}
                            ELSE documents
            /\ lastOp' = NoOp
    /\ budget' = SpendIf(failAt # "none")
    /\ prevCall' = NoCall /\ lastCall' = NoCall /\ lastIns' = NoIns
    /\ UNCHANGED <<docSeq, chunkSeq, markerDim, tableDim, dimension, lastRowid,
                   mu, phase, ix, rd, pv, sq, ck>>

---------------------------------------------------------------------------
(* The store's specification *)

IdlePv == [pc |-> "off"]

\* A new database file, opened and initialized: empty tables, no dimension
\* marker, the chunks table at the store's default dimension.
StoreInit ==
    /\ documents = {} /\ docSeq = 0
    /\ chunks = {} /\ chunkSeq = 0
    /\ markerDim = 0
    /\ tableDim = DefaultEmbeddingDimension
    /\ dimension = DefaultEmbeddingDimension
    /\ lastRowid = 0
    /\ mu = [writer |-> FALSE, readers |-> 0]
    /\ phase = "initialized"
    /\ ix = IdleIx /\ rd = IdleRd
    /\ lastOp = NoOp /\ prevCall = NoCall /\ lastCall = NoCall /\ lastIns = NoIns
    /\ budget = [calls |-> MaxIndexCalls, faults |-> MaxFaults]

IdleSq == [pc |-> "off"]
IdleCk == [pc |-> "off"]

Init == StoreInit /\ pv = IdlePv /\ sq = IdleSq /\ ck = IdleCk

Next ==
    \/ \E dim \in Dims, failAt \in {"none", "select", "drop", "clear", "create", "marker"} :
          SetDimension(dim, failAt)
    \/ Restart
    \/ \E path \in Paths, content \in Contents, force \in BOOLEAN :
          IndexStart(path, content, force)
    \/ \E fault \in FaultChoices : IndexNeedsUpdate(fault)
    \/ \E fault \in FaultChoices : IndexUpsert(fault)
    \/ \E ok \in BOOLEAN : IndexEmbed(ok)
    \/ IndexInsertLock
    \/ \E fault \in BOOLEAN : IndexInsertDelete(fault)
    \/ \E fault \in FaultChoices : IndexInsertPrepare(fault)
    \/ \E fault \in FaultChoices : IndexInsertExec(fault)
    \/ \E kind \in {"Search", "GetChunksByDocument"}, docID \in KnownDocIDs :
          ReadLock(kind, docID)
    \/ ReadUnlock
    \/ \E path \in Paths, failAt \in {"none", "chunks", "document"} :
          DeleteDocument(path, failAt)

Spec == Init /\ [][Next]_vars

\* The `dimandocs index` command, run again and again: NewEmbeddingManager,
\* then IndexDocument for each document in turn. Nothing reads the store
\* meanwhile and nothing calls DeleteDocument.
IndexNext ==
    \/ \E dim \in Dims, failAt \in {"none", "select", "drop", "clear", "create", "marker"} :
          SetDimension(dim, failAt)
    \/ Restart
    \/ \E path \in Paths, content \in Contents, force \in BOOLEAN :
          IndexStart(path, content, force)
    \/ \E fault \in FaultChoices : IndexNeedsUpdate(fault)
    \/ \E fault \in FaultChoices : IndexUpsert(fault)
    \/ \E ok \in BOOLEAN : IndexEmbed(ok)
    \/ IndexInsertLock
    \/ \E fault \in BOOLEAN : IndexInsertDelete(fault)
    \/ \E fault \in FaultChoices : IndexInsertPrepare(fault)
    \/ \E fault \in FaultChoices : IndexInsertExec(fault)

IndexSpec == Init /\ [][IndexNext]_vars

---------------------------------------------------------------------------
(* The store and the orchestrator: the claims *)

\* C1 (as claimed): in every state a reader can observe, between the steps of
\* IndexDocument and after a call that returned an error included, every chunk
\* row of a document was cut from the content whose hash is the document
\* record's content_hash.
C1_ChunksMatchHash ==
    ~mu.writer =>
        \A d \in documents : \A r \in ChunksOfDoc(d.id) : r.src = d.content_hash

\* Two IndexDocument calls in a row, force = false, same document and content.
SameDocTwice ==
    /\ prevCall.path # None
    /\ lastCall.path = prevCall.path
    /\ lastCall.content = prevCall.content
    /\ ~prevCall.force /\ ~lastCall.force

\* C2 (as claimed): two calls in a row with unchanged content invoke
\* EmbedBatch exactly once in total; the second call makes no provider call
\* and no store write and returns success.
C2_ExactlyOnce ==
    SameDocTwice =>
        /\ prevCall.embeds + lastCall.embeds = 1
        /\ lastCall.embeds = 0
        /\ lastCall.writes = 0
        /\ lastCall.err = None

\* C2 (amended): when no store statement failed in the first call's change
\* check and upsert nor in the second call's change check, the second call
\* makes no provider call and no store write and returns success, and
\* EmbedBatch is invoked at most once over the two calls: once exactly when
\* the first call found the document out of date and the Chunker returned at
\* least one chunk.
C2_SecondCallNoOp ==
    ( /\ SameDocTwice
      /\ prevCall.err \notin {"store: needs update", "store: upsert"}
      /\ lastCall.err # "store: needs update" ) =>
        /\ lastCall.embeds = 0
        /\ lastCall.writes = 0
        /\ lastCall.err = None
        /\ prevCall.embeds + lastCall.embeds <= 1
        /\ prevCall.embeds = 1 <=>
              (prevCall.needed /\ ChunkCount(prevCall.content) > 0)

\* The first call embedded and stored the document, the second one skipped it.
C2_Witness ==
    /\ SameDocTwice
    /\ prevCall.err = None /\ prevCall.embeds = 1 /\ prevCall.writes = 2
    /\ lastCall.err = None /\ lastCall.embeds = 0

\* C3 (as claimed): a GetChunksByDocument that meets an InsertChunks(docID,
\* new) call sees the complete old chunk set of docID or the complete new one,
\* never an empty or partial set.
C3_ReadsSeeOldOrNew ==
    (rd.pc = "read" /\ rd.kind = "GetChunksByDocument" /\ rd.ins.docID = rd.docID) =>
        rd.rows \in {rd.ins.old, rd.ins.new}

\* C4 (as claimed): after IndexDocument returned nil for a document that had
\* chunk rows and whose new content chunks to nothing, the document is up to
\* date and the store holds no chunk row of it.
C4_ZeroChunksClearsRows ==
    ( /\ ix.pc = "idle"
      /\ lastCall.path # None /\ lastCall.err = None
      /\ lastCall.hadChunks /\ lastCall.needed
      /\ ChunkCount(lastCall.content) = 0 ) =>
        /\ ~NeedsUpdate(documents, lastCall.path, ContentHash(lastCall.content))
        /\ ChunksOfDoc(DocOf(documents, lastCall.path).id) = {}

\* C5: after SetDimension(d) returned nil on a store whose marker was not d,
\* the store holds no chunk row and no document record, the chunks table and
\* the marker are at d, every path and hash indexed before needs an update,
\* and Search returns no row.
C5_MigrationPurges ==
    (lastOp.op = "SetDimension" /\ lastOp.changed /\ lastOp.err = None) =>
        /\ chunks = {}
        /\ documents = {}
        /\ tableDim = lastOp.dim
        /\ markerDim = lastOp.dim
        /\ \A ph \in lastOp.before : NeedsUpdate(documents, ph[1], ph[2])
        /\ SearchRows = {}

\* A migration of a store that held an indexed document and its chunk rows.
C5_Witness ==
    /\ lastOp.op = "SetDimension" /\ lastOp.changed /\ lastOp.err = None
    /\ lastOp.before # {} /\ lastOp.rowsBefore > 0
    /\ lastOp.dim = dimension

\* C22 (as claimed): when InsertChunks(docID, chunks) returns an error, at the
\* delete, the prepare or the k-th insert, the chunk rows of docID are exactly
\* what they were before the call.
C22_InsertChunksAllOrNothing ==
    (ix.pc = "idle" /\ lastCall.err = "store: insert chunks"
       /\ lastIns.docID >= 0) =>
        View(ChunksOfDoc(lastIns.docID)) = lastIns.old

\* C24 (as claimed): UpsertDocument(path, title, hash) returns the id of the
\* document record whose path is `path`, when the record is new and when an
\* existing record is updated, after any earlier inserts on the store; the
\* record then carries the new title and hash.
C24_UpsertReturnsRecordId ==
    ix.pc = "embed" =>
        /\ HasDoc(documents, ix.path)
        /\ ix.docID = DocOf(documents, ix.path).id
        /\ DocOf(documents, ix.path).title = DocTitle(ix.content)
        /\ DocOf(documents, ix.path).content_hash = ContentHash(ix.content)

\* C25 (as claimed): after any sequence of IndexDocument, DeleteDocument and
\* SetDimension operations every chunk row's doc_id is the id of an existing
\* document record, and that record is the one of the document the chunk was
\* cut from: no chunk outlives its document, and two documents of identical
\* content and different paths have two records with disjoint chunk sets.
C25_ChunksOwnedByDocument ==
    /\ \A r \in chunks :
          /\ \E d \in documents : d.id = r.doc_id
          /\ HasDoc(documents, r.path) /\ DocOf(documents, r.path).id = r.doc_id
    /\ \A d, e \in documents : d.path # e.path => d.id # e.id

\* C27 (as claimed): after IndexDocument(doc, force = false) returned an
\* error past the change check, because EmbedBatch or InsertChunks failed,
\* NeedsUpdate still reports true for the document's path and hash, so a
\* later IndexDocument(doc, false) with the same content does not skip it.
C27_FailedDocumentStaysStale ==
    ( /\ ix.pc = "idle"
      /\ ~lastCall.force
      /\ lastCall.err \in {"provider", "store: insert chunks"} ) =>
        NeedsUpdate(documents, lastCall.path, ContentHash(lastCall.content))

---------------------------------------------------------------------------
(* The embedding providers: program constants *)

MaxBatchSize == 2048
MaxRetries == 5
InitialBackoff == 10
MaxBackoff == 120
VoyageMaxBatchSize == 128
VoyageMaxRetries == 5
VoyageInitialBackoff == 10
VoyageMaxBackoff == 120

Services == {"openai", "voyage", "ollama"}

\* Texts per network call: the batch of EmbedBatch, or the one prompt of Ollama.
BatchCeiling(svc) ==
    CASE svc = "openai" -> MaxBatchSize
      [] svc = "voyage" -> VoyageMaxBatchSize
      [] svc = "ollama" -> 1

\* len(texts) of the calls made: none, one, two, and one more than a batch.
TextCounts(svc) == {0, 1, 2, BatchCeiling(svc) + 1}

\* What the server answers to one request, or how the request fails:
\*   ok         status 200 with one embedding per input
\*   empty      status 200 with no embedding (data: [], or no embedding field)
\*   rate       status 429, the rate-limit signal
\*   http       another error status (400, 401, 500, ...)
\*   transport  no response (connection refused, timeout)
\*   ctx        the caller's context is done: the call fails without a request
\* mentions: whether the error text go-openai builds from it contains "429",
\* "rate" or "quota"; a 429 always does ("status code: 429"), another error
\* does when its message happens to ("... you requested 9429 tokens").
Responses ==
    {[kind |-> "ok", mentions |-> FALSE], [kind |-> "empty", mentions |-> FALSE],
     [kind |-> "rate", mentions |-> TRUE],
     [kind |-> "http", mentions |-> FALSE], [kind |-> "http", mentions |-> TRUE],
     [kind |-> "transport", mentions |-> FALSE]}
CtxResponse == [kind |-> "ctx", mentions |-> FALSE]
NoResponse == [kind |-> None, mentions |-> FALSE]

Succeeded(resp) == resp.kind \in {"ok", "empty"}

\* isRateLimitError(err): err # nil and its lower-cased text contains "429",
\* "rate" or "quota".
isRateLimitError(resp) == ~Succeeded(resp) /\ resp.mentions

\* resp.StatusCode == http.StatusTooManyRequests.
isStatusTooManyRequests(resp) == resp.kind = "rate"

Min(a, b) == IF a < b THEN a ELSE b

NextBackoff_NoCap(backoff, cap) == backoff * 2

\* backoff *= 2; if backoff > MaxBackoff { backoff = MaxBackoff }.
NextBackoff(backoff, cap) == IF backoff * 2 > cap THEN cap ELSE backoff * 2

FirstBackoff(svc) == IF svc = "voyage" THEN VoyageInitialBackoff ELSE InitialBackoff
BackoffCap(svc) == IF svc = "voyage" THEN VoyageMaxBackoff ELSE MaxBackoff

\* What one turn of the retry loop does with the answer of the network call:
\* "ok" (leave the loop with a response), "sleep" (back off and retry) or the
\* error the function returns.
HandleOpenAI(resp, retry) ==
    IF Succeeded(resp) THEN "ok"
    ELSE IF isRateLimitError(resp) /\ retry < MaxRetries THEN "sleep"
    ELSE "failed to create embeddings"

HandleVoyage(resp, retry) ==
    IF resp.kind \in {"transport", "ctx"} THEN "failed to send request to Voyage AI"
    ELSE IF isStatusTooManyRequests(resp) /\ retry < VoyageMaxRetries THEN "sleep"
    ELSE IF Succeeded(resp) THEN "ok"
    ELSE "Voyage AI API error"

HandleOllama_Retry(resp, retry) ==
    IF resp.kind \in {"transport", "ctx"} THEN "failed to send request to Ollama"
    ELSE IF isStatusTooManyRequests(resp) /\ retry < MaxRetries THEN "sleep"
    ELSE IF Succeeded(resp) THEN "ok"
    ELSE "ollama API error"

\* OllamaService.Embed: one request, no retry.
HandleOllama(resp, retry) ==
    IF resp.kind \in {"transport", "ctx"} THEN "failed to send request to Ollama"
    ELSE IF Succeeded(resp) THEN "ok"
    ELSE "ollama API error"

Handle(svc, resp, retry) ==
    CASE svc = "openai" -> HandleOpenAI(resp, retry)
      [] svc = "voyage" -> HandleVoyage(resp, retry)
      [] svc = "ollama" -> HandleOllama(resp, retry)

\* The embedding of text j is the one-number vector <<j>>.
\* The embeddings read from a 200 response to texts first..last: resp.Data in
\* order (OpenAI), placed by index (Voyage), the one vector of the response,
\* empty when the field is missing (Ollama).
Embeddings(svc, resp, first, last) ==
    IF resp.kind = "ok" THEN [k \in 1..(last - first + 1) |-> <<first + k - 1>>]
    ELSE IF svc = "ollama" THEN << <<>> >>
    ELSE <<>>

\* The order in which a Voyage response lists the items of its data array.
\* (OpenAI's response is read in the order listed, which its API keeps.)
Orders == {"listed", "reversed", "rotated"}

\* voyageResponse.Data of a 200 response to texts first..last: each item
\* carries the position of its text in the request as `index`.
VoyageData(resp, first, last, order) ==
    IF resp.kind # "ok" THEN <<>>
    ELSE LET m == last - first + 1
             at(k) == CASE order = "listed" -> k
                        [] order = "reversed" -> m + 1 - k
                        [] order = "rotated" -> (k % m) + 1
         IN  [k \in 1..m |-> [index |-> at(k) - 1, embedding |-> <<first + at(k) - 1>>]]

\* What a server that does not keep to the API's contract does to the items
\* of a response: "exact" one item per text, "short" the last listed item is
\* missing, "repeated" the last listed item carries the index of the first,
\* "beyond" the first listed item carries the index len(data).
Shapes == {"exact", "short", "repeated", "beyond"}
Misshape(data, shape) ==
    CASE shape = "short" -> SubSeq(data, 1, Len(data) - 1)
      [] shape = "repeated" -> [data EXCEPT ![Len(data)].index = data[1].index]
      [] shape = "beyond" -> [data EXCEPT ![1].index = Len(data)]
      [] OTHER -> data

\* A nil []float32: a position of the result no item was written to.
Nil == <<>>

PlaceByIndex_AsListed(data) ==
    [panic |-> FALSE, vecs |-> [k \in 1..Len(data) |-> data[k].embedding]]

\* embeddings := make([][]float32, len(Data)); for each item in the order
\* listed, embeddings[data.Index] = embedding: a later item overwrites an
\* earlier one of the same index, a position no item names stays nil, and an
\* index outside 0..len(Data)-1 is a run-time panic (index out of range).
PlaceByIndex(data) ==
    IF \E j \in 1..Len(data) : data[j].index \notin 0..(Len(data) - 1)
    THEN [panic |-> TRUE, vecs |-> <<>>]
    ELSE [panic |-> FALSE,
          vecs |-> [k \in 1..Len(data) |->
                      LET js == {j \in 1..Len(data) : data[j].index = k - 1}
                      IN  IF js = {} THEN Nil
                          ELSE data[CHOOSE j \in js : \A i \in js : i <= j].embedding]]

\* The embeddings one successful network call adds to the result: OpenAI
\* appends resp.Data as listed, Voyage places by index, Ollama has the one
\* vector of its response.
GroupEmbeddings(svc, resp, first, last, order, shape) ==
    IF svc = "voyage"
    THEN PlaceByIndex(Misshape(VoyageData(resp, first, last, order), shape))
    ELSE [panic |-> FALSE,
          vecs |-> IF shape = "short"
                   THEN SubSeq(Embeddings(svc, resp, first, last), 1, last - first)
                   ELSE Embeddings(svc, resp, first, last)]

EmptyResult_Error == [err |-> "no texts", vecs |-> <<>>]

\* if len(texts) == 0 { return nil, nil }.
EmptyResult == [err |-> None, vecs |-> <<>>]

\* Embed of the two remote services, from the result of EmbedBatch([text]).
EmbedOfBatch(res) ==
    IF res.err # None THEN [err |-> res.err, vec |-> <<>>]
    ELSE IF Len(res.vecs) = 0 THEN [err |-> "no embeddings returned", vec |-> <<>>]
    ELSE [err |-> None, vec |-> res.vecs[1]]

SleepOutcome_TimerOnly(ctxDone) == "timer"

\* select { case <-ctx.Done(): return nil, ctx.Err(); case <-time.After(backoff): }
\* The timer is new and at least 10 s away: a context that is done wins.
SleepOutcome(ctxDone) == IF ctxDone THEN "cancelled" ELSE "timer"

NoEmbed == [set |-> FALSE, err |-> None, vec |-> <<>>]
NoBatch == [set |-> FALSE, err |-> None, vecs |-> <<>>]

\* The service between two calls.
IdleProvider(svc) ==
    [svc |-> svc, pc |-> "idle", op |-> None, n |-> 0, i |-> 0, retry |-> 0,
     backoff |-> 0, tries |-> 0, waits |-> <<>>, sends |-> 0, last |-> NoResponse,
     out |-> <<>>, ctxDone |-> FALSE, sleepCancel |-> FALSE, sendsAtCancel |-> 0,
     shuffled |-> FALSE, malformed |-> FALSE, asked |-> <<>>,
     E |-> NoEmbed, B |-> NoBatch]

ProvUnchanged == UNCHANGED <<storeVars, sq, ck>>

\* The call returns res (the result of the EmbedBatch loop, or of the one
\* request of Ollama's Embed). E is what Embed returned, B what EmbedBatch did.
Finish(p, res) ==
    [p EXCEPT
       !.pc = "done",
       !.B = IF p.svc = "ollama" /\ p.op = "Embed" THEN NoBatch
             ELSE [set |-> TRUE, err |-> res.err, vecs |-> res.vecs],
       !.E = IF p.svc = "ollama"
             THEN IF p.sends = 0 THEN NoEmbed
                  ELSE [set |-> TRUE, err |-> res.err,
                        vec |-> IF res.err = None THEN res.vecs[Len(res.vecs)]
                                ELSE <<>>]
             ELSE IF p.op = "Embed"
                  THEN [set |-> TRUE] @@ EmbedOfBatch(res)
                  ELSE NoEmbed]

\* Embed(ctx, text) or EmbedBatch(ctx, texts) is called with a live context.
ProvCall(op, n) ==
    /\ pv.pc = "idle"
    /\ op = "Embed" => n = 1
    /\ LET p == [IdleProvider(pv.svc) EXCEPT
                   !.op = op, !.n = n, !.backoff = FirstBackoff(pv.svc)]
       IN  pv' = IF n = 0 THEN Finish(p, EmptyResult)
                 ELSE [p EXCEPT !.pc = "send"]
    /\ ProvUnchanged

\* One network call for the group starting after text i, and what the loop
\* does with its answer. A panic ends the process: no result, no next call.
ProvSend(resp, order, shape) ==
    /\ pv.pc = "send"
    /\ pv.ctxDone <=> resp = CtxResponse
    /\ order # "listed" =>
          pv.svc = "voyage" /\ resp.kind = "ok" /\ Min(pv.n - pv.i, BatchCeiling(pv.svc)) > 1
    /\ shape # "exact" =>
          /\ resp.kind = "ok"
          /\ pv.svc = "voyage" \/ (pv.svc = "openai" /\ shape = "short")
          /\ shape = "repeated" => Min(pv.n - pv.i, BatchCeiling(pv.svc)) > 1
    /\ LET last == Min(pv.i + BatchCeiling(pv.svc), pv.n)
           h == Handle(pv.svc, resp, pv.retry)
           p == [pv EXCEPT !.sends = @ + 1, !.tries = @ + 1, !.last = resp,
                           !.shuffled = @ \/ order # "listed",
                           !.malformed = @ \/ shape # "exact",
                           !.asked = Append(@, pv.i + 1)]
       IN  pv' =
             IF h = "sleep"
             THEN [p EXCEPT !.pc = "sleep", !.waits = Append(@, pv.backoff)]
             ELSE IF h = "ok"
             THEN LET g == GroupEmbeddings(pv.svc, resp, pv.i + 1, last, order, shape)
                      all == pv.out \o g.vecs
                  IN  IF g.panic THEN [p EXCEPT !.pc = "panicked"]
                      ELSE IF last >= pv.n
                      THEN Finish([p EXCEPT !.out = all],
                                  [err |-> None, vecs |-> all])
                      ELSE [p EXCEPT !.out = all, !.i = last, !.retry = 0,
                                     !.tries = 0, !.waits = <<>>,
                                     !.backoff = FirstBackoff(pv.svc)]
             ELSE Finish(p, [err |-> h, vecs |-> <<>>])
    /\ ProvUnchanged

\* The select of the backoff: the timer fires and the loop retries, or the
\* context is done and the call returns ctx.Err().
ProvWake ==
    /\ pv.pc = "sleep"
    /\ pv' = IF SleepOutcome(pv.ctxDone) = "cancelled"
             THEN Finish(pv, [err |-> "context canceled", vecs |-> <<>>])
             ELSE [pv EXCEPT !.pc = "send", !.retry = @ + 1,
                             !.backoff = NextBackoff(@, BackoffCap(pv.svc))]
    /\ ProvUnchanged

\* The caller cancels the context while the call runs.
ProvCancel ==
    /\ pv.pc \in {"send", "sleep"}
    /\ ~pv.ctxDone
    /\ pv' = [pv EXCEPT !.ctxDone = TRUE,
                        !.sleepCancel = (pv.pc = "sleep"),
                        !.sendsAtCancel = pv.sends]
    /\ ProvUnchanged

\* The caller has the result; the service is ready for the next call.
ProvReturn ==
    /\ pv.pc = "done"
    /\ pv' = IdleProvider(pv.svc)
    /\ ProvUnchanged

ProvInit ==
    /\ StoreInit /\ sq = IdleSq /\ ck = IdleCk
    /\ \E svc \in Services : pv = IdleProvider(svc)

ProvNext ==
    \/ \E op \in {"Embed", "EmbedBatch"}, n \in TextCounts(pv.svc) : ProvCall(op, n)
    \/ \E resp \in Responses \cup {CtxResponse}, order \in Orders, shape \in Shapes :
          ProvSend(resp, order, shape)
    \/ ProvWake
    \/ ProvCancel
    \/ ProvReturn

ProvSpec == ProvInit /\ [][ProvNext]_vars

---------------------------------------------------------------------------
(* Claims about the embedding providers, checked under ProvSpec *)

Remote == pv.svc \in {"openai", "voyage"}

\* C6: in OpenAI's and Voyage's EmbedBatch a rate-limited group is sent again
\* after a backoff; the waits of one group are 10, 20, 40, 80, 120 seconds in
\* that order, a group is sent at most six times, and when the sixth send is
\* rate-limited too the call returns an error and no embeddings.
C6_RateLimitBackoff ==
    Remote =>
      /\ pv.tries <= 6
      /\ Len(pv.waits) <= 5
      /\ pv.waits = SubSeq(<<10, 20, 40, 80, 120>>, 1, Len(pv.waits))
      /\ pv.pc = "send" => Len(pv.waits) = pv.tries
      /\ (pv.last.kind = "rate" /\ pv.tries < 6) =>
            \/ pv.pc = "sleep" /\ Len(pv.waits) = pv.tries
            \/ pv.pc = "send" /\ pv.retry = pv.tries
            \/ pv.pc = "done" /\ pv.sleepCancel
      /\ (pv.last.kind = "rate" /\ pv.tries = 6) =>
            pv.pc = "done" /\ pv.B.err \notin {None, "context canceled"}
                           /\ pv.B.vecs = <<>>

\* The second group of a call is rate-limited six times after the first group
\* succeeded: five waits, then the error.
C6_Witness ==
    /\ Remote /\ pv.pc = "done" /\ pv.i > 0 /\ pv.tries = 6
    /\ pv.waits = <<10, 20, 40, 80, 120>> /\ pv.last.kind = "rate"

\* C7: in OpenAI's and Voyage's EmbedBatch a network call that fails with
\* anything but a rate-limit signal ends the call at once with an error: no
\* backoff, no further network call, and no embeddings, those of the groups
\* that already succeeded included.
C7_OtherFailureIsFinal ==
    (Remote /\ pv.last.kind \in {"http", "transport"}) =>
        /\ pv.pc = "done"
        /\ pv.B.err # None
        /\ pv.B.vecs = <<>>
        /\ Len(pv.waits) = pv.tries - 1

\* C8: when the context is cancelled while EmbedBatch sleeps in a backoff,
\* the call returns the context's error and no embeddings, and makes no
\* further network call.
C8_CancelDuringBackoff ==
    (Remote /\ pv.sleepCancel) =>
        /\ pv.pc \in {"sleep", "done"}
        /\ pv.sends = pv.sendsAtCancel
        /\ pv.pc = "done" =>
              pv.B.err = "context canceled" /\ pv.B.vecs = <<>>

\* Cancelled in a backoff of the second group: the first group's embeddings
\* are dropped.
C8_Witness ==
    Remote /\ pv.sleepCancel /\ pv.pc = "done" /\ Len(pv.out) > 0

\* C9: EmbedBatch of an empty list of texts returns an empty result and no
\* error without any network call, in every provider.
C9_EmptyBatch ==
    (pv.pc = "done" /\ pv.op = "EmbedBatch" /\ pv.n = 0) =>
        pv.B.set /\ pv.B.err = None /\ pv.B.vecs = <<>> /\ pv.sends = 0

C9_Witness ==
    pv.pc = "done" /\ pv.op = "EmbedBatch" /\ pv.n = 0 /\ pv.svc = "ollama"
    /\ pv.B.set /\ pv.sends = 0

\* C10: in every provider Embed(t) returns what EmbedBatch([t])[0] is, and
\* the error "no embeddings returned" when the underlying call yields no
\* embedding.
C10_EmbedIsFirstOfBatch ==
    (pv.pc = "done" /\ pv.n = 1 /\ pv.E.set) =>
        /\ pv.B.set =>
              /\ pv.E.err = None <=> (pv.B.err = None /\ Len(pv.B.vecs) > 0)
              /\ pv.E.err = None => pv.E.vec = pv.B.vecs[1]
              /\ pv.B.err # None => pv.E.err = pv.B.err
        /\ (pv.last.kind = "empty" /\ ~pv.ctxDone) =>
              pv.E.err = "no embeddings returned"

\* C11: VoyageService.EmbedBatch returns the embeddings in input order however
\* the server orders the items of a response (one item per text): the item
\* with index k goes to position k of its group and the groups follow each
\* other, so result[i] is the embedding of texts[i].
C11_VoyageInputOrder ==
    (pv.pc = "done" /\ pv.svc = "voyage" /\ pv.op = "EmbedBatch"
       /\ pv.B.err = None /\ Len(pv.B.vecs) = pv.n /\ ~pv.malformed) =>
        \A j \in 1..pv.n : pv.B.vecs[j] = <<j>>

\* Two groups, at least one answered out of order.
C11_Witness ==
    /\ pv.pc = "done" /\ pv.svc = "voyage" /\ pv.op = "EmbedBatch"
    /\ pv.B.err = None /\ pv.n > VoyageMaxBatchSize /\ Len(pv.B.vecs) = pv.n
    /\ pv.shuffled

\* C26: OllamaService.EmbedBatch issues one request per text in input order
\* (the k-th request carries text k), never retries and never waits; at the
\* first failing text it returns the error and no embeddings, and issues no
\* request for a later text.
C26_OllamaSequential ==
    (pv.svc = "ollama" /\ pv.op = "EmbedBatch") =>
        /\ pv.pc # "sleep" /\ pv.waits = <<>> /\ pv.tries <= 1
        /\ pv.sends <= pv.n
        /\ pv.asked = [k \in 1..pv.sends |-> k]
        /\ pv.pc = "send" => pv.sends = Len(pv.out)
        /\ (pv.pc = "done" /\ pv.B.err = None) =>
              pv.sends = pv.n /\ Len(pv.B.vecs) = pv.n
        /\ (pv.pc = "done" /\ pv.B.err # None) =>
              /\ pv.B.vecs = <<>>
              /\ pv.sends = Len(pv.out) + 1
              /\ ~Succeeded(pv.last)

\* The first text is embedded, the second fails: one request each, no result.
C26_Witness ==
    /\ pv.svc = "ollama" /\ pv.op = "EmbedBatch" /\ pv.pc = "done"
    /\ pv.n = 2 /\ pv.sends = 2 /\ Len(pv.out) = 1
    /\ pv.last.kind = "rate" /\ pv.B.err # None /\ pv.B.vecs = <<>>

\* C28 (as claimed): when EmbedBatch returns without error the number of
\* embeddings is the number of texts submitted, for every provider and over
\* all groups, so IndexDocument's embeddings[i] exists for every chunk i; a
\* response with fewer items than inputs yields an error.
C28_OneEmbeddingPerText ==
    (pv.pc = "done" /\ pv.op = "EmbedBatch" /\ pv.B.err = None) =>
        Len(pv.B.vecs) = pv.n

\* C29 (as claimed): in VoyageService.embedBatchWithRetry every index used to
\* place a response item is within the bounds of the result slice, and every
\* position of a successful result holds an embedding: a response with an
\* index outside 0..len(data)-1 or with a repeated index produces an error.
C29_VoyageIndexChecked ==
    pv.svc = "voyage" =>
        /\ pv.pc # "panicked"
        /\ (pv.pc = "done" /\ pv.B.err = None) =>
              \A j \in 1..Len(pv.B.vecs) : pv.B.vecs[j] # Nil

---------------------------------------------------------------------------
(* Configuration and construction: LoadConfig, NewEmbeddingManager and the *)
(* three service constructors                                              *)

DefaultDimension == 3072
DefaultModel == "text-embedding-3-large"
DefaultVoyageModel == "voyage-3"
DefaultOllamaModel == "nomic-embed-text"

\* embeddings.provider, embeddings.model and embeddings.api_key (after the
\* expansion of environment variables) of dimandocs.json; "" is an absent key.
ProviderNames == {"", "openai", "ollama", "voyage", "voyageai", "cohere"}
ModelNames ==
    {"", "text-embedding-3-large", "text-embedding-3-small", "voyage-3",
     "voyage-3-lite", "voyage-code-3", "voyage-large-2", "nomic-embed-text",
     "mxbai-embed-large", "all-minilm", "my-model"}
\* api_key as written in the file: absent, a literal key, or a reference to
\* an environment variable.
APIKeys == {"", "key", "${OPENAI_API_KEY}", "$OPENAI_API_KEY", "${VOYAGE_API_KEY}"}

\* The process environment: each variable unset ("") or holding a key.
EnvVars == {"OPENAI_API_KEY", "VOYAGE_API_KEY"}
Environments ==
    {[OPENAI_API_KEY |-> o, VOYAGE_API_KEY |-> v] :
        o \in {"", "sk-env"}, v \in {"", "pa-env"}}

\* expandEnvVars(s): os.Expand replaces ${VAR} and $VAR by os.Getenv(VAR), ""
\* when VAR is unset; the empty string stays empty. (The second pass only
\* acts on a result that starts with "$", which none of these values does.)
expandEnvVars(s, env) ==
    CASE s = "" -> ""
      [] s \in {"${OPENAI_API_KEY}", "$OPENAI_API_KEY"} -> env.OPENAI_API_KEY
      [] s = "${VOYAGE_API_KEY}" -> env.VOYAGE_API_KEY
      [] OTHER -> s

\* The embeddings section of dimandocs.json and the environment the process
\* runs in; `file` keeps the section as written.
ConfigFile(provider, model, apiKey, env) ==
    [pc |-> "file", provider |-> provider, model |-> model, apiKey |-> apiKey,
     env |-> env,
     file |-> [provider |-> provider, model |-> model, apiKey |-> apiKey]]

\* LoadConfig: the expansion of environment variables and the defaults of
\* the embeddings section.
LoadedConfig(cfg) ==
    [cfg EXCEPT !.pc = "config",
                !.apiKey = expandEnvVars(@, cfg.env),
                !.provider = IF @ = "" THEN "openai" ELSE @,
                !.model = IF @ = "" THEN "text-embedding-3-large" ELSE @]

\* NewOpenAIService(OpenAIConfig{APIKey, Model, BaseURL}): cfgDimension is
\* OpenAIConfig.Dimension.
NewOpenAIService(apiKey, model, cfgDimension) ==
    IF apiKey = "" THEN [err |-> "OpenAI API key is required"]
    ELSE [err |-> None, svc |-> "openai", apiKey |-> apiKey,
          model |-> IF model # "" THEN model ELSE DefaultModel,
          dimension |-> IF cfgDimension > 0 THEN cfgDimension ELSE DefaultDimension]

VoyageModelDimension(model) ==
    CASE model \in {"voyage-3", "voyage-code-3"} -> 1024
      [] model = "voyage-3-lite" -> 512
      [] model \in {"voyage-large-2", "voyage-2", "voyage-code-2"} -> 1536
      [] OTHER -> VoyageDimension

NewVoyageService(apiKey, model) ==
    IF apiKey = "" THEN [err |-> "Voyage AI API key is required"]
    ELSE LET m == IF model = "" THEN DefaultVoyageModel ELSE model
         IN  [err |-> None, svc |-> "voyage", apiKey |-> apiKey, model |-> m,
              dimension |-> VoyageModelDimension(m)]

OllamaModelDimension(model) ==
    CASE model = "nomic-embed-text" -> 768
      [] model = "mxbai-embed-large" -> 1024
      [] model = "all-minilm" -> 384
      [] OTHER -> OllamaDimension

NewOllamaService(model) ==
    LET m == IF model = "" THEN DefaultOllamaModel ELSE model
    IN  [err |-> None, svc |-> "ollama", apiKey |-> "", model |-> m,
         dimension |-> OllamaModelDimension(m)]

\* The provider switch of NewEmbeddingManager; OpenAIConfig.Dimension is not
\* set there and so is 0.
NewService(cfg) ==
    CASE cfg.provider \in {"openai", ""} -> NewOpenAIService(cfg.apiKey, cfg.model, 0)
      [] cfg.provider = "ollama" -> NewOllamaService(cfg.model)
      [] cfg.provider \in {"voyage", "voyageai"} -> NewVoyageService(cfg.apiKey, cfg.model)
      [] OTHER -> [err |-> "unsupported embedding provider"]

\* LoadConfig reads the file.
LoadConfig ==
    /\ pv.pc = "file"
    /\ pv' = LoadedConfig(pv)
    /\ UNCHANGED <<storeVars, sq, ck>>

\* NewEmbeddingManager(app.Config.Embeddings) on the initialized store: the
\* service is built and its Dimension() handed to store.SetDimension.
NewEmbeddingManager(failAt) ==
    /\ pv.pc = "config"
    /\ LET r == NewService(pv) IN
         IF r.err # None
         THEN /\ failAt = "none"
              /\ pv' = [pc |-> "failed", cfg |-> pv, err |-> r.err]
              /\ UNCHANGED <<storeVars, sq, ck>>
         ELSE /\ pv' = [pc |-> "built", cfg |-> pv, svc |-> r.svc,
                        apiKey |-> r.apiKey, model |-> r.model,
                        dimension |-> r.dimension]
              /\ SetDimensionCall(r.dimension, failAt)
              /\ UNCHANGED <<sq, ck>>

ConfInit ==
    /\ StoreInit /\ sq = IdleSq /\ ck = IdleCk
    /\ \E provider \in ProviderNames, model \in ModelNames, apiKey \in APIKeys,
          env \in Environments :
          pv = ConfigFile(provider, model, apiKey, env)

ConfNext ==
    \/ LoadConfig
    \/ \E failAt \in {"none", "select", "drop", "clear", "create", "marker"} :
          NewEmbeddingManager(failAt)

ConfSpec == ConfInit /\ [][ConfNext]_vars

\* The dimensions the README documents for the supported models, and each
\* provider's default.
DocumentedModels ==
    {"text-embedding-3-large", "text-embedding-3-small", "voyage-3",
     "voyage-3-lite", "nomic-embed-text", "mxbai-embed-large"}
DocumentedDimension(model) ==
    CASE model = "text-embedding-3-large" -> 3072
      [] model = "text-embedding-3-small" -> 1536
      [] model = "voyage-3" -> 1024
      [] model = "voyage-3-lite" -> 512
      [] model = "nomic-embed-text" -> 768
      [] model = "mxbai-embed-large" -> 1024
ProviderModels(svc) ==
    CASE svc = "openai" -> {"text-embedding-3-large", "text-embedding-3-small"}
      [] svc = "voyage" -> {"voyage-3", "voyage-3-lite"}
      [] svc = "ollama" -> {"nomic-embed-text", "mxbai-embed-large"}

\* C12: the Dimension() of the service NewEmbeddingManager builds is the
\* documented dimension of the configured model (text-embedding-3-large 3072,
\* text-embedding-3-small 1536, voyage-3 1024, voyage-3-lite 512,
\* nomic-embed-text 768, mxbai-embed-large 1024), and it is the value the
\* store's SetDimension receives.
C12_DimensionOfModel ==
    pv.pc = "built" =>
        /\ dimension = pv.dimension
        /\ pv.model \in ProviderModels(pv.svc) =>
              pv.dimension = DocumentedDimension(pv.model)

\* The environment variable the README names for a provider's API key.
StandardKeyVar(provider) ==
    IF provider \in {"voyage", "voyageai"} THEN "VOYAGE_API_KEY" ELSE "OPENAI_API_KEY"
KeyRequired(provider) == provider \in {"", "openai", "voyage", "voyageai"}
Constructed == pv.pc \in {"built", "failed"}

\* C21 (as claimed): when api_key is absent from the embeddings section, the
\* key of a provider that needs one is read from its standard environment
\* variable (OPENAI_API_KEY, VOYAGE_API_KEY): with the variable set
\* NewEmbeddingManager succeeds and the service holds that key; with no key
\* in the file and none in the environment the construction fails with an
\* error.
C21_KeyFromEnvironment ==
    (Constructed /\ pv.cfg.file.apiKey = "" /\ KeyRequired(pv.cfg.file.provider)) =>
        LET key == pv.cfg.env[StandardKeyVar(pv.cfg.file.provider)] IN
        IF key # ""
        THEN pv.pc = "built" /\ pv.apiKey = key
        ELSE pv.pc = "failed" /\ pv.err # None

\* C23 (as claimed): store errors are surfaced to the caller. When the
\* dimension migration of SetDimension fails (the marker query, the drop, the
\* clear, the recreate or the marker write), NewEmbeddingManager returns an
\* error and no enabled manager. (The other half of the claim, that a failed
\* store statement inside IndexDocument makes the call return an error, is
\* what IndexNeedsUpdate, IndexUpsert and InsertReturn do.)
C23_StoreErrorsSurfaced ==
    (Constructed /\ lastOp.op = "SetDimension" /\ lastOp.err # None) =>
        pv.pc = "failed"

\* The default model each service documents for itself.
ProviderDefaultModel(svc) ==
    CASE svc = "openai" -> DefaultModel
      [] svc = "voyage" -> DefaultVoyageModel
      [] svc = "ollama" -> DefaultOllamaModel

\* C30 (as claimed): when the model is left empty in the configuration, the
\* service that LoadConfig followed by NewEmbeddingManager builds uses its
\* provider's own default model: voyage-3 for voyage, nomic-embed-text for
\* ollama, text-embedding-3-large for openai.
C30_ProviderDefaultModel ==
    (pv.pc = "built" /\ pv.cfg.file.model = "") =>
        pv.model = ProviderDefaultModel(pv.svc)

---------------------------------------------------------------------------
(* Query-time search: App.handleSearch (HTTP) and Server.handleSearchDocs  *)
(* (MCP tool search_docs)                                                  *)

MaxHits == 3

\* Text is a sequence of characters over a small alphabet.
ToLower(c) == CASE c = "A" -> "a" [] c = "B" -> "b" [] OTHER -> c
ToLowerStr(str) == [k \in 1..Len(str) |-> ToLower(str[k])]
Contains(str, sub) ==
    \E k \in 0..(Len(str) - Len(sub)) : SubSeq(str, k + 1, k + Len(sub)) = sub

\* a.Documents: the documents the scan loaded. gone.md is indexed in the
\* store but no longer among them (nothing ever calls DeleteDocument).
AppDocuments ==
    << [RelPath |-> "a.md", Title |-> <<"A">>, Content |-> <<"a", "b">>, Overview |-> <<>>],
       [RelPath |-> "b.md", Title |-> <<"b">>, Content |-> <<"B", "B">>, Overview |-> <<"c">>] >>
IndexedPaths == {"a.md", "b.md", "gone.md"}
Queries == {<<>>, <<"a">>, <<"B">>, <<"a", "B">>, <<"c">>, <<"d">>}

\* What store.Search can return: up to MaxHits chunks of the indexed
\* documents by ascending distance; the k-th has score 100 - k.
Hits == IndexedPaths \X {0, 1}
StoreAnswers ==
    {[k \in 1..Len(h) |-> [path |-> h[k][1], chunk |-> h[k][2], score |-> 100 - k]] :
       h \in {x \in UNION {[1..n -> Hits] : n \in 0..MaxHits} :
                \A i, j \in 1..Len(x) : i # j => x[i] # x[j]}}

\* App.textSearch.
textSearch(query) ==
    LET q == ToLowerStr(query)
        Match(d) == \/ Contains(ToLowerStr(d.Title), q)
                    \/ Contains(ToLowerStr(d.Content), q)
                    \/ Contains(ToLowerStr(d.Overview), q)
        found == SelectSeq(AppDocuments, Match)
    IN  [k \in 1..Len(found) |->
            [path |-> found[k].RelPath, chunk |-> -1, score |-> 0,
             IsVectorSearch |-> FALSE]]

Seen_Never(seen, path) == FALSE

\* seenDocs[doc.RelPath].
Seen(seen, path) == path \in seen

\* The loop of App.vectorSearch over the store's results.
RECURSIVE vectorSearchLoop(_, _, _, _)
vectorSearchLoop(results, k, seen, acc) ==
    IF k > Len(results) THEN acc
    ELSE LET r == results[k]
             loaded == \E j \in 1..Len(AppDocuments) : AppDocuments[j].RelPath = r.path
         IN  IF ~loaded \/ Seen(seen, r.path)
             THEN vectorSearchLoop(results, k + 1, seen, acc)
             ELSE vectorSearchLoop(results, k + 1, seen \cup {r.path},
                     Append(acc, [path |-> r.path, chunk |-> r.chunk,
                                  score |-> r.score, IsVectorSearch |-> TRUE]))
vectorSearch(results) == vectorSearchLoop(results, 1, {}, <<>>)

NoAnswer == <<>>
ReadySq == [pc |-> "idle", entry |-> None, query |-> <<>>, failed |-> None,
            answer |-> NoAnswer, out |-> [error |-> FALSE, results |-> <<>>]]

Respond(q, error, results) ==
    [q EXCEPT !.pc = "done", !.out = [error |-> error, results |-> results]]

\* A request arrives: GET /api/search?q=... or the tool call search_docs.
SearchRequest(entry, query, enabled) ==
    /\ sq.pc = "idle"
    /\ entry = "mcp" => enabled
    /\ LET q == [ReadySq EXCEPT !.entry = entry, !.query = query] IN
       sq' = IF query = <<>>
             THEN Respond(q, entry = "mcp", <<>>)
             ELSE IF ~enabled THEN Respond(q, FALSE, textSearch(query))
             ELSE [q EXCEPT !.pc = "embed"]
    /\ UNCHANGED <<storeVars, pv, ck>>

\* The embedding of the query: embed.Embed returns.
SearchEmbed(ok) ==
    /\ sq.pc = "embed"
    /\ sq' = IF ok THEN [sq EXCEPT !.pc = "store"]
             ELSE LET q == [sq EXCEPT !.failed = "embed"] IN
                  IF sq.entry = "http" THEN Respond(q, FALSE, textSearch(sq.query))
                  ELSE Respond(q, TRUE, <<>>)
    /\ UNCHANGED <<storeVars, pv, ck>>

\* store.Search returns the answer, or an error (ok = FALSE).
SearchStore(ok, answer) ==
    /\ sq.pc = "store"
    /\ ~ok => answer = NoAnswer
    /\ sq' = IF ok
             THEN LET q == [sq EXCEPT !.answer = answer] IN
                  IF sq.entry = "http" THEN Respond(q, FALSE, vectorSearch(answer))
                  ELSE Respond(q, FALSE,
                          [k \in 1..Len(answer) |->
                              answer[k] @@ [IsVectorSearch |-> TRUE]])
             ELSE LET q == [sq EXCEPT !.failed = "store"] IN
                  IF sq.entry = "http" THEN Respond(q, FALSE, textSearch(sq.query))
                  ELSE Respond(q, TRUE, <<>>)
    /\ UNCHANGED <<storeVars, pv, ck>>

\* The response is written; the server waits for the next request.
SearchDone ==
    /\ sq.pc = "done"
    /\ sq' = ReadySq
    /\ UNCHANGED <<storeVars, pv, ck>>

SearchInit == StoreInit /\ pv = IdlePv /\ ck = IdleCk /\ sq = ReadySq

SearchNext ==
    \/ \E entry \in {"http", "mcp"}, query \in Queries, enabled \in BOOLEAN :
          SearchRequest(entry, query, enabled)
    \/ \E ok \in BOOLEAN : SearchEmbed(ok)
    \/ \E ok \in BOOLEAN, answer \in StoreAnswers : SearchStore(ok, answer)
    \/ SearchDone

SearchSpec == SearchInit /\ [][SearchNext]_vars

VectorAnswered == sq.pc = "done" /\ sq.entry = "http" /\ sq.answer # NoAnswer
FirstOfPath(results, k) == \A j \in 1..(k - 1) : results[j].path # results[k].path
LoadedPaths == {AppDocuments[j].RelPath : j \in 1..Len(AppDocuments)}
PathsOf(results) == [k \in 1..Len(results) |-> results[k].path]

\* C13: vectorSearch keeps, of the store's distance-ordered results, the
\* first result of each document path (its score and chunk) in their order:
\* result paths [A, A, B] become [A, B].
C13_DedupByPath ==
    VectorAnswered =>
        LET kept == SelectSeq([k \in 1..Len(sq.answer) |-> k],
                              LAMBDA k : FirstOfPath(sq.answer, k))
        IN  sq.out.results =
              [i \in 1..Len(kept) |->
                  sq.answer[kept[i]] @@ [IsVectorSearch |-> TRUE]]

\* C13 (amended): the same of the results whose path is a loaded document;
\* results of documents the application has not loaded are left out.
C13_DedupLoadedByPath ==
    VectorAnswered =>
        LET kept == SelectSeq([k \in 1..Len(sq.answer) |-> k],
                              LAMBDA k : /\ sq.answer[k].path \in LoadedPaths
                                         /\ FirstOfPath(sq.answer, k))
        IN  sq.out.results =
              [i \in 1..Len(kept) |->
                  sq.answer[kept[i]] @@ [IsVectorSearch |-> TRUE]]

\* The store answers [a.md, a.md, b.md]; the response is [a.md, b.md].
C13_Witness ==
    /\ VectorAnswered
    /\ PathsOf(sq.answer) = <<"a.md", "a.md", "b.md">>
    /\ PathsOf(sq.out.results) = <<"a.md", "b.md">>
    /\ sq.out.results[1].score = sq.answer[1].score

\* C14: in both search entry points a failure of the query embedding or of
\* the store's search is not returned as an error: the response is the
\* matches of the case-insensitive text scan, unscored and not marked as
\* vector results.
C14_FallbackToText ==
    (sq.pc = "done" /\ sq.failed # None) =>
        /\ ~sq.out.error
        /\ {sq.out.results[k].path : k \in 1..Len(sq.out.results)} =
             {d \in LoadedPaths : \E j \in 1..Len(AppDocuments) :
                 /\ AppDocuments[j].RelPath = d
                 /\ \E f \in {"Title", "Content", "Overview"} :
                       Contains(ToLowerStr(AppDocuments[j][f]), ToLowerStr(sq.query))}
        /\ \A k \in 1..Len(sq.out.results) :
              sq.out.results[k].score = 0 /\ ~sq.out.results[k].IsVectorSearch

---------------------------------------------------------------------------
(* The chunker (package chunking): ChunkMarkdown and splitLargeSection     *)

\* A Go string is its sequence of bytes; each byte is written as a one-
\* character string. "0xC3" "0xA9" are the two bytes of one rune (e-acute).
DefaultMaxChunkSize == 1500
DefaultOverlapSize == 150
MinChunkSize == 100

WhiteSpace == {" ", "\n", "\t"}

\* Number of leading bytes of str that are in set.
LeadRun(str, set) ==
    IF \A k \in 1..Len(str) : str[k] \in set THEN Len(str)
    ELSE (CHOOSE k \in 1..Len(str) :
             str[k] \notin set /\ \A j \in 1..(k - 1) : str[j] \in set) - 1

\* strings.TrimSpace.
TrimSpace(str) ==
    IF \A k \in 1..Len(str) : str[k] \in WhiteSpace THEN <<>>
    ELSE LET a == LeadRun(str, WhiteSpace) + 1
             b == CHOOSE k \in 1..Len(str) :
                     str[k] \notin WhiteSpace
                     /\ \A j \in (k + 1)..Len(str) : str[j] \in WhiteSpace
         IN  SubSeq(str, a, b)

\* utf8.RuneCountInString: the second byte of a two-byte rune is not counted.
RuneCountInString(str) ==
    Len(str) - Cardinality({k \in 2..Len(str) :
                               str[k] = "0xA9" /\ str[k - 1] = "0xC3"})

\* strings.Split(str, "\n"), from byte `start` on.
RECURSIVE SplitLinesFrom(_, _)
SplitLinesFrom(str, start) ==
    LET nl == {k \in start..Len(str) : str[k] = "\n"} IN
    IF nl = {} THEN <<SubSeq(str, start, Len(str))>>
    ELSE LET q == CHOOSE k \in nl : \A j \in nl : k <= j
         IN  <<SubSeq(str, start, q - 1)>> \o SplitLinesFrom(str, q + 1)
SplitLines(str) == SplitLinesFrom(str, 1)

\* headerRegex `^(#{1,6})\s+(.+)$` on one line: whether it matches, and
\* matches[2] (the greedy \s+ leaves the title at least one byte).
HeaderMatch(line) ==
    LET h == LeadRun(line, {"#"})
        rest == SubSeq(line, h + 1, Len(line))
        w == LeadRun(rest, WhiteSpace)
    IN  IF h \in 1..6 /\ w >= 1 /\ Len(rest) >= 2
        THEN [matched |-> TRUE,
              title |-> IF w < Len(rest) THEN SubSeq(rest, w + 1, Len(rest))
                        ELSE SubSeq(rest, Len(rest), Len(rest))]
        ELSE [matched |-> FALSE, title |-> <<>>]

\* Joins lines with "\n".
RECURSIVE JoinLines(_)
JoinLines(ls) ==
    IF Len(ls) = 0 THEN <<>>
    ELSE IF Len(ls) = 1 THEN ls[1]
    ELSE ls[1] \o <<"\n">> \o JoinLines(Tail(ls))

\* splitIntoParagraphs: the parts between the matches of `\n\s*\n` (runs
\* of lines with no whitespace-only line among them), trimmed, the empty
\* ones dropped.
RECURSIVE ParagraphsOfLines(_, _, _)
ParagraphsOfLines(ls, k, cur) ==
    LET close == IF TrimSpace(JoinLines(cur)) = <<>> THEN <<>>
                 ELSE <<TrimSpace(JoinLines(cur))>>
    IN  IF k > Len(ls) THEN close
        ELSE IF TrimSpace(ls[k]) = <<>> /\ k > 1 /\ k < Len(ls)
             THEN close \o ParagraphsOfLines(ls, k + 1, <<>>)
             ELSE ParagraphsOfLines(ls, k + 1, Append(cur, ls[k]))
splitIntoParagraphs(text) == ParagraphsOfLines(SplitLines(text), 1, <<>>)

\* getOverlapText: the length to subtract for the start offset.
getOverlapText(text, overlapSize) ==
    IF Len(text) <= overlapSize THEN Len(text) ELSE overlapSize

\* getLastNChars: the last n bytes of str, from after their first space when
\* that space lies in their first half.
getLastNChars(str, n) ==
    IF Len(str) <= n THEN str
    ELSE LET substr == SubSeq(str, Len(str) - n + 1, Len(str))
             idx == LeadRun(substr, {c \in {substr[k] : k \in 1..Len(substr)} : c # " "})
         IN  IF idx < Len(substr) /\ idx < Len(substr) \div 2
             THEN SubSeq(substr, idx + 2, Len(substr))
             ELSE substr

\* A chunk: the fields of chunking.Chunk, and for the claims where its buffer
\* came from: `split` (made by the loop of splitLargeSection), `prev` (the
\* chunk text closed when its buffer was started; <<>> for the first buffer
\* of a section), `prevKept` (that text was emitted as a chunk), `seed`
\* (the overlap text its buffer was started with) and `sect` (the start
\* offset of the section it was cut from).
NewChunk(index, text, title, startOffset, endOffset, split, prev, prevKept, seed, sect) ==
    [Index |-> index, Text |-> text, SectionTitle |-> title,
     StartOffset |-> startOffset, EndOffset |-> endOffset,
     split |-> split, prev |-> prev, prevKept |-> prevKept, seed |-> seed,
     sect |-> sect]

TooSmall_Never(text) == FALSE

\* len(text) < MinChunkSize.
TooSmall(text) == Len(text) < MinChunkSize

\* The chunk the buffer of st closes into, appended when it is large enough.
CloseChunk(st, title) ==
    LET chunkText == TrimSpace(st.buf) IN
    IF TooSmall(chunkText) THEN st
    ELSE [st EXCEPT
            !.chunks = Append(@, NewChunk(st.chunkIndex, chunkText, title,
                                          st.chunkStart, st.currentOffset, TRUE,
                                          st.prev, st.prevKept, st.seed, st.sect)),
            !.chunkIndex = @ + 1]

\* The loop of splitLargeSection over the paragraphs.
RECURSIVE SplitLoop(_, _, _, _, _)
SplitLoop(paragraphs, k, st, title, opts) ==
    IF k > Len(paragraphs) THEN CloseChunk(st, title).chunks
    ELSE
      LET para == paragraphs[k]
          paraLen == RuneCountInString(para)
          currentLen == RuneCountInString(st.buf)
          full == currentLen > 0 /\ currentLen + paraLen + 2 > opts.MaxChunkSize
          chunkText == TrimSpace(st.buf)
          closed == CloseChunk(st, title)
          overlapText ==
              IF opts.OverlapSize > 0 /\ Len(chunkText) > opts.OverlapSize
              THEN getLastNChars(chunkText, opts.OverlapSize)
              ELSE <<>>
          started ==
              IF full
              THEN [closed EXCEPT
                      !.chunkStart = st.currentOffset
                                       - getOverlapText(chunkText, opts.OverlapSize),
                      !.buf = IF opts.OverlapSize > 0 /\ Len(chunkText) > opts.OverlapSize
                              THEN overlapText \o <<"\n", "\n">> ELSE <<>>,
                      !.prev = chunkText,
                      !.prevKept = ~TooSmall(chunkText),
                      !.seed = overlapText]
              ELSE st
      IN  SplitLoop(paragraphs, k + 1,
                    [started EXCEPT !.buf = @ \o para \o <<"\n", "\n">>,
                                    !.currentOffset = @ + Len(para) + 2],
                    title, opts)

splitLargeSection(text0, title, opts, startIndex, startOffset) ==
    LET text == TrimSpace(text0) IN
    IF Len(text) <= opts.MaxChunkSize
    THEN <<NewChunk(startIndex, text, title, startOffset, startOffset + Len(text),
                    FALSE, <<>>, FALSE, <<>>, startOffset)>>
    ELSE SplitLoop(splitIntoParagraphs(text), 1,
                   [chunks |-> <<>>, chunkIndex |-> startIndex,
                    currentOffset |-> startOffset, buf |-> <<>>,
                    chunkStart |-> startOffset,
                    prev |-> <<>>, prevKept |-> FALSE, seed |-> <<>>,
                    sect |-> startOffset],
                   title, opts)

AdvanceIndex_Stuck(chunkIndex, n) == chunkIndex

\* chunkIndex += len(sectionChunks).
AdvanceIndex(chunkIndex, n) == chunkIndex + n

\* flushSection: the section gathered so far becomes chunks.
flushSection(st, opts) ==
    LET text == TrimSpace(st.section) IN
    IF TooSmall(text) THEN st
    ELSE LET sectionChunks == splitLargeSection(text, st.title, opts,
                                                st.chunkIndex, st.sectionStart)
         IN  [st EXCEPT !.chunks = @ \o sectionChunks,
                        !.chunkIndex = AdvanceIndex(@, Len(sectionChunks))]

\* The loop of ChunkMarkdown over the lines.
RECURSIVE ChunkLines(_, _, _, _)
ChunkLines(lines, k, st, opts) ==
    IF k > Len(lines) THEN flushSection(st, opts).chunks
    ELSE
      LET line == lines[k]
          hm == HeaderMatch(line)
          flushed == flushSection(st, opts)
          st1 == IF hm.matched
                 THEN [flushed EXCEPT !.section = <<>>, !.title = hm.title,
                                      !.sectionStart = st.offset]
                 ELSE st
      IN  ChunkLines(lines, k + 1,
                     [st1 EXCEPT !.section = @ \o line \o <<"\n">>,
                                 !.offset = @ + Len(line) + 1],
                     opts)

\* The options as ChunkMarkdown uses them.
EffectiveOptions(opts) ==
    [MaxChunkSize |-> IF opts.MaxChunkSize <= 0 THEN DefaultMaxChunkSize
                      ELSE opts.MaxChunkSize,
     OverlapSize |-> IF opts.OverlapSize < 0 THEN DefaultOverlapSize
                     ELSE opts.OverlapSize]

ChunkMarkdown(content, opts0) ==
    LET opts == EffectiveOptions(opts0)
        made == ChunkLines(SplitLines(content), 1,
                        [chunks |-> <<>>, section |-> <<>>, title |-> <<>>,
                        sectionStart |-> 0, chunkIndex |-> 0, offset |-> 0],
                       opts)
    IN  IF Len(made) = 0 /\ Len(TrimSpace(content)) >= MinChunkSize
        THEN splitLargeSection(content, <<>>, opts, 0, 0)
        ELSE made

DefaultOptions == [MaxChunkSize |-> DefaultMaxChunkSize, OverlapSize |-> DefaultOverlapSize]

---------------------------------------------------------------------------
(* The calls of ChunkMarkdown *)

\* n bytes of the letter c in words of w letters (w = 0: one word).
Fill(c, n, w) ==
    [k \in 1..n |-> IF w > 0 /\ k % (w + 1) = 0 /\ k < n THEN " " ELSE c]

\* n two-byte runes.
FillRunes(n) == [k \in 1..(2 * n) |-> IF k % 2 = 1 THEN "0xC3" ELSE "0xA9"]

\* The pieces documents are made of: heading lines, paragraphs of 60, 120,
\* 400 and 1600 bytes, 60 two-byte runes, and a whitespace-only line.
Block(name) ==
    CASE name = "h"     -> <<"#", " ", "T", "\n">>
      [] name = "o"     -> <<"#", "#", " ", "O", "v", "\n">>
      [] name = "p60"   -> Fill("a", 60, 5) \o <<"\n", "\n">>
      [] name = "p120"  -> Fill("b", 120, 7) \o <<"\n", "\n">>
      [] name = "p400"  -> Fill("c", 400, 9) \o <<"\n", "\n">>
      [] name = "p1600" -> Fill("d", 1600, 0) \o <<"\n", "\n">>
      [] name = "u120"  -> FillRunes(60) \o <<"\n", "\n">>
      [] name = "bl"    -> <<" ", " ", "\n">>
BlockNames == {"h", "o", "p60", "p120", "p400", "p1600", "u120", "bl"}

RECURSIVE Build(_)
Build(names) == IF Len(names) = 0 THEN <<>> ELSE Block(names[1]) \o Build(Tail(names))

\* "# Title / ## Overview / Short overview text. / ## Details / long body".
OverviewDocument ==
    <<"#", " ", "T", "i", "t", "l", "e", "\n", "\n", "#", "#", " ", "O",
    "v", "e", "r", "v", "i", "e", "w", "\n", "\n", "S", "h", "o", "r", "t",
    " ", "o", "v", "e", "r", "v", "i", "e", "w", " ", "t", "e", "x", "t",
    ".", "\n", "\n", "#", "#", " ", "D", "e", "t", "a", "i", "l", "s",
    "\n", "\n">>
    \o Block("p400") \o Block("p400") \o Block("p400") \o Block("p400")

\* The documents chunked: every document of at most two pieces, and some
\* longer ones.
DocumentTexts ==
    {Build(d) : d \in UNION {[1..n -> BlockNames] : n \in 0..2}}
    \cup {Build(d) : d \in
            {<<"h", "p60", "o", "p60">>,
             <<"h", "p400", "o", "p400", "p400">>,
             <<"p120", "h", "p400", "p60", "p400">>,
             <<"h", "p400", "p60", "p1600">>,
             <<"o", "p120", "p60", "p400", "p400">>,
             <<"h", "u120", "u120", "p120">>}}
    \cup {OverviewDocument}

OptionChoices ==
    {DefaultOptions,
     [MaxChunkSize |-> 0, OverlapSize |-> -1],
     [MaxChunkSize |-> 300, OverlapSize |-> 40],
     [MaxChunkSize |-> 120, OverlapSize |-> 150],
     [MaxChunkSize |-> 450, OverlapSize |-> 0]}

ReadyCk == [pc |-> "idle", content |-> <<>>, opts |-> DefaultOptions, out |-> <<>>]

\* chunking.ChunkMarkdown(content, opts) is called and returns.
ChunkCall(content, opts) ==
    /\ ck.pc = "idle"
    /\ ck' = [pc |-> "done", content |-> content, opts |-> opts,
              out |-> ChunkMarkdown(content, opts)]
    /\ UNCHANGED <<storeVars, pv, sq>>

\* The caller has taken the chunks.
ChunkReturn ==
    /\ ck.pc = "done"
    /\ ck' = ReadyCk
    /\ UNCHANGED <<storeVars, pv, sq>>

ChunkInit == StoreInit /\ pv = IdlePv /\ sq = IdleSq /\ ck = ReadyCk

ChunkNext ==
    \/ \E content \in DocumentTexts, opts \in OptionChoices : ChunkCall(content, opts)
    \/ ChunkReturn

ChunkSpec == ChunkInit /\ [][ChunkNext]_vars

---------------------------------------------------------------------------
(* Claims about the chunker, checked under ChunkSpec *)

Chunked == ck.pc = "done"
MaxSize == EffectiveOptions(ck.opts).MaxChunkSize
OverlapSize == EffectiveOptions(ck.opts).OverlapSize
HasHeading(content) ==
    \E k \in 1..Len(SplitLines(content)) : HeaderMatch(SplitLines(content)[k]).matched

\* C15: the chunks ChunkMarkdown returns carry the indices 0, 1, ..., n-1 in
\* output order, and the trimmed text of each is at least MinChunkSize (100)
\* bytes long.
C15_DenseIndicesMinSize ==
    Chunked =>
        \A k \in 1..Len(ck.out) :
            /\ ck.out[k].Index = k - 1
            /\ Len(TrimSpace(ck.out[k].Text)) >= 100

\* Chunks of two titled sections, one of them split by size.
C15_Witness ==
    /\ Chunked /\ Len(ck.out) >= 3
    /\ \E i, j \in 1..Len(ck.out) :
          /\ ck.out[i].SectionTitle # <<>> /\ ck.out[j].SectionTitle # <<>>
          /\ ck.out[i].SectionTitle # ck.out[j].SectionTitle
          /\ ck.out[j].split /\ ck.out[j].Index = Len(ck.out) - 1

\* C16: no chunk ChunkMarkdown returns is longer than maxSize characters.
C16_NoChunkOverMaxSize ==
    Chunked =>
        \A k \in 1..Len(ck.out) : RuneCountInString(ck.out[k].Text) <= MaxSize

\* C17: of two adjacent chunks the size-splitter cut from one section, the
\* second starts with a suffix of the first: its trailing overlapSize
\* characters, or fewer when broken at a word boundary.
C17_AdjacentChunksOverlap ==
    (Chunked /\ OverlapSize > 0) =>
        \A k \in 1..(Len(ck.out) - 1) :
            LET a == ck.out[k].Text
                b == ck.out[k + 1].Text
            IN  (ck.out[k].split /\ ck.out[k + 1].split
                   /\ ck.out[k].sect = ck.out[k + 1].sect) =>
                \E m \in 1..OverlapSize :
                    /\ m <= Len(a) /\ m <= Len(b)
                    /\ SubSeq(a, Len(a) - m + 1, Len(a)) = SubSeq(b, 1, m)

\* C18: the seed of a new chunk buffer is never longer than overlapSize, and
\* it is the whole chunk just closed when that chunk is not longer than
\* overlapSize.
C18_SeedCappedOrWhole ==
    Chunked =>
        \A k \in 1..Len(ck.out) :
            (ck.out[k].split /\ ck.out[k].prevKept) =>
                /\ Len(ck.out[k].seed) <= OverlapSize
                /\ Len(ck.out[k].prev) <= OverlapSize =>
                      ck.out[k].seed = ck.out[k].prev

\* C19: the document "# Title / ## Overview / Short overview text. /
\* ## Details / long body" chunked with maxSize 1500 and overlapSize 150 has a
\* chunk with section title "Overview" whose text is "Short overview text.".
C19_OverviewChunk ==
    (Chunked /\ ck.content = OverviewDocument /\ ck.opts = DefaultOptions) =>
        \E k \in 1..Len(ck.out) :
            /\ ck.out[k].SectionTitle = <<"O", "v", "e", "r", "v", "i", "e", "w">>
            /\ ck.out[k].Text =
                 <<"S", "h", "o", "r", "t", " ", "o", "v", "e", "r", "v", "i", "e",
                   "w", " ", "t", "e", "x", "t", ".">>

\* C20: the whole document goes through the size-splitter as one untitled
\* section exactly when it has no heading and its trimmed length is at least
\* MinChunkSize; a document with headings has no untitled chunk that spans a
\* heading line; an empty or whitespace-only document has no chunk.
C20_UntitledFallback ==
    Chunked =>
        /\ (~HasHeading(ck.content) /\ Len(TrimSpace(ck.content)) >= 100) =>
              ck.out = splitLargeSection(ck.content, <<>>,
                                         EffectiveOptions(ck.opts), 0, 0)
        /\ HasHeading(ck.content) =>
              \A k \in 1..Len(ck.out) :
                  ck.out[k].SectionTitle = <<>> => ~HasHeading(ck.out[k].Text)
        /\ TrimSpace(ck.content) = <<>> => ck.out = <<>>

====
